---- MODULE Spec2Model ----
(***************************************************************************)
(* Model of class Graph (src/cpp/Graph.h, src/cpp/Graph.cpp): the vertex   *)
(* map, the edge list, the merge sort, the disjoint-set and the two        *)
(* Kruskal entry points mst() and mst_steps_json().                        *)
(*                                                                         *)
(* A caller builds one Graph as parseGraphFromText of wasm_entry.cpp does   *)
(* (constructor, V addVertex calls, then addEdge calls) and then calls     *)
(* mst() and mst_steps_json() any number of times, in any order.  Each     *)
(* public method is one action.                                            *)
(* The trace of mst_steps_json() is kept as the document the method        *)
(* serialises (steps and mstWeight); edge ids are opaque tokens.           *)
(***************************************************************************)
EXTENDS Integers, Sequences, FiniteSets, TLC

\* ---------------------------------------------------------------- bounds
MaxV == 3
MaxEdges == 3
\* the number of vertices of the graph whose disjoint-set is followed call by call
MaxSets == 4

\* The vertex tokens of the input, in the order a caller first uses them, and
\* the <<src, dst, weight>> it may give an edge: the two edges of a path in
\* either weight, the edge closing the path into a triangle, a self-loop.
NameSeq == <<"A", "B", "C", "D", "E">>
EdgeInputs ==
    {<<"A", "B", -1>>, <<"A", "B", 1>>, <<"B", "C", -1>>, <<"B", "C", 1>>,
     <<"C", "A", 1>>, <<"A", "A", -1>>}

VARIABLES
    numVertices,   \* Graph::numVertices
    vertices,      \* Graph::vertices : map<string,int>
    edges,         \* Graph::edges    : vector<edge>
    parent,        \* Graph::parent   : vector<int>, indexed from 0
    rnk,           \* Graph::rnk      : vector<int>, indexed from 0
    vertexCalls,   \* the addVertex calls made so far, as <<name, index>>
    added,         \* the edges in the order addEdge received them
    mstRes,        \* what the latest mst() call returned
    traceRes,      \* what the latest mst_steps_json() call returned
    naive          \* a component label per index, joined at every union_set call

vars == <<numVertices, vertices, edges, parent, rnk, vertexCalls, added, mstRes, traceRes,
          naive>>

\* ------------------------------------------------------------ struct edge
Edge(id, w, s, d) == [id |-> id, weight |-> w, src |-> s, dst |-> d]

\* v.at(i) of a vector kept as a sequence
At(v, i) == v[i + 1]

\* ---------------------------------------------------------- merge sort
\* mergeEdges comparing with > : the heavier head first
RECURSIVE mergeEdges_heavierFirst(_, _)
mergeEdges_heavierFirst(v1, v2) ==
    IF v1 = << >> THEN v2
    ELSE IF v2 = << >> THEN v1
    ELSE IF Head(v1).weight > Head(v2).weight
         THEN <<Head(v1)>> \o mergeEdges_heavierFirst(Tail(v1), v2)
         ELSE <<Head(v2)>> \o mergeEdges_heavierFirst(v1, Tail(v2))

\* mergeEdges without the loop that copies what is left of v1
RECURSIVE mergeEdges_dropsLeftTail(_, _)
mergeEdges_dropsLeftTail(v1, v2) ==
    IF v1 = << >> THEN v2
    ELSE IF v2 = << >> THEN << >>
    ELSE IF Head(v1).weight < Head(v2).weight
         THEN <<Head(v1)>> \o mergeEdges_dropsLeftTail(Tail(v1), v2)
         ELSE <<Head(v2)>> \o mergeEdges_dropsLeftTail(v1, Tail(v2))

RECURSIVE mergeEdges(_, _)
mergeEdges(v1, v2) ==
    IF v1 = << >> THEN v2
    ELSE IF v2 = << >> THEN v1
    ELSE IF Head(v1).weight < Head(v2).weight
         THEN <<Head(v1)>> \o mergeEdges(Tail(v1), v2)
         ELSE <<Head(v2)>> \o mergeEdges(v1, Tail(v2))

RECURSIVE sortEdges(_, _, _)
sortEdges(v, low, hi) ==
    IF low = hi THEN <<At(v, low)>>
    ELSE LET mid   == (low + hi) \div 2
             lower == sortEdges(v, low, mid)
             upper == sortEdges(v, mid + 1, hi)
         IN  mergeEdges(lower, upper)

sort(es) == IF es = << >> THEN es ELSE sortEdges(es, 0, Len(es) - 1)

\* ---------------------------------------------------------- disjoint set
\* vector<int>::resize(n): keeps the elements it has, value-initialises new ones
resize(vec, n) == [i \in 0 .. (n - 1) |-> IF i \in DOMAIN vec THEN vec[i] ELSE 0]

\* make_set on (parent, rnk): resize both, then reset the registered indices
make_set(par, rk, nv, vs) ==
    LET regd == {vs[k] : k \in DOMAIN vs}
        p0   == resize(par, nv)
        r0   == resize(rk, nv)
    IN  [parent |-> [i \in DOMAIN p0 |-> IF i \in regd THEN i ELSE p0[i]],
         rnk    |-> [i \in DOMAIN r0 |-> IF i \in regd THEN 0 ELSE r0[i]]]

\* find_set that only looks the root up and rewrites no parent
RECURSIVE find_set_withoutCompression(_, _)
find_set_withoutCompression(par, a) ==
    IF par[a] = a THEN [root |-> a, parent |-> par]
    ELSE [root |-> find_set_withoutCompression(par, par[a]).root, parent |-> par]

\* find_set with path compression: the root and the parent array afterwards
RECURSIVE find_set(_, _)
find_set(par, a) ==
    IF par[a] = a THEN [root |-> a, parent |-> par]
    ELSE LET up == find_set(par, par[a])
         IN  [root |-> up.root, parent |-> [up.parent EXCEPT ![a] = up.root]]

\* union_set leaving the rank alone when the two roots have equal rank
union_set_withoutRankIncrement(par, rk, a0, b0) ==
    LET fa == find_set(par, a0)
        fb == find_set(fa.parent, b0)
        swap == rk[fa.root] < rk[fb.root]
        a  == IF swap THEN fb.root ELSE fa.root
        b  == IF swap THEN fa.root ELSE fb.root
    IN  IF fa.root = fb.root
        THEN [ok |-> FALSE, parent |-> fb.parent, rnk |-> rk]
        ELSE [ok |-> TRUE, parent |-> [fb.parent EXCEPT ![b] = a], rnk |-> rk]

\* union_set without the swap: b's root always goes under a's root
union_set_withoutSwap(par, rk, a0, b0) ==
    LET fa == find_set(par, a0)
        fb == find_set(fa.parent, b0)
        a == fa.root
        b == fb.root
    IN  IF a = b
        THEN [ok |-> FALSE, parent |-> fb.parent, rnk |-> rk]
        ELSE [ok |-> TRUE,
              parent |-> [fb.parent EXCEPT ![b] = a],
              rnk |-> IF rk[a] = rk[b] THEN [rk EXCEPT ![a] = rk[a] + 1] ELSE rk]

\* union_set without find_set: it compares and links its arguments
union_set_withoutFind(par, rk, a0, b0) ==
    IF a0 = b0
    THEN [ok |-> FALSE, parent |-> par, rnk |-> rk]
    ELSE [ok |-> TRUE,
          parent |-> [par EXCEPT ![b0] = a0],
          rnk |-> IF rk[a0] = rk[b0] THEN [rk EXCEPT ![a0] = rk[a0] + 1] ELSE rk]

\* union_set linking its arguments instead of the roots find_set returned
union_set_linksArguments(par, rk, a0, b0) ==
    LET fa == find_set(par, a0)
        fb == find_set(fa.parent, b0)
        p1 == fb.parent
    IN  IF fa.root = fb.root
        THEN [ok |-> FALSE, parent |-> p1, rnk |-> rk]
        ELSE [ok |-> TRUE,
              parent |-> [p1 EXCEPT ![b0] = a0],
              rnk |-> IF rk[a0] = rk[b0] THEN [rk EXCEPT ![a0] = rk[a0] + 1] ELSE rk]

\* union_set without the test `if (a == b) return false`
union_set_noCycleTest(par, rk, a0, b0) ==
    LET fa == find_set(par, a0)
        fb == find_set(fa.parent, b0)
        p1 == fb.parent
        swap == rk[fa.root] < rk[fb.root]
        a  == IF swap THEN fb.root ELSE fa.root
        b  == IF swap THEN fa.root ELSE fb.root
    IN  [ok |-> TRUE,
         parent |-> [p1 EXCEPT ![b] = a],
         rnk |-> IF rk[a] = rk[b] THEN [rk EXCEPT ![a] = rk[a] + 1] ELSE rk]

union_set(par, rk, a0, b0) ==
    LET fa == find_set(par, a0)
        fb == find_set(fa.parent, b0)
        p1 == fb.parent
        swap == rk[fa.root] < rk[fb.root]
        a  == IF swap THEN fb.root ELSE fa.root
        b  == IF swap THEN fa.root ELSE fb.root
    IN  IF fa.root = fb.root
        THEN [ok |-> FALSE, parent |-> p1, rnk |-> rk]
        ELSE [ok |-> TRUE,
              parent |-> [p1 EXCEPT ![b] = a],
              rnk |-> IF rk[a] = rk[b] THEN [rk EXCEPT ![a] = rk[a] + 1] ELSE rk]

\* ----------------------------------------------------------- vertex map
\* map::operator[] assignment in place of emplace: the later call overwrites
emplace_overwrites(vs, name, idx) ==
    [k \in DOMAIN vs \cup {name} |-> IF k = name THEN idx ELSE vs[k]]

\* map::emplace inserts only when the key is absent
emplace(vs, name, idx) ==
    IF name \in DOMAIN vs THEN vs
    ELSE [k \in DOMAIN vs \cup {name} |-> IF k = name THEN idx ELSE vs[k]]

\* getIndex answering index 0 for a name that is not registered
getIndex_unknownIsZero(vs, name) == IF name \in DOMAIN vs THEN vs[name] ELSE 0

getIndex(vs, name) == IF name \in DOMAIN vs THEN vs[name] ELSE -1

\* ------------------------------------------------------------- mst loop
\* the loop body testing a > 0 && b > 0: index 0 counts as unknown
mstIter_zeroIsUnknown(st, e, vs) ==
    LET a == getIndex(vs, e.src)
        b == getIndex(vs, e.dst)
    IN  IF a > 0 /\ b > 0
        THEN LET u == union_set(st.parent, st.rnk, a, b)
             IN  IF u.ok
                 THEN [parent |-> u.parent, rnk |-> u.rnk,
                       tree |-> Append(st.tree, e), cost |-> st.cost + e.weight]
                 ELSE [st EXCEPT !.parent = u.parent, !.rnk = u.rnk]
        ELSE st

\* one iteration of the loop of mst() on edge e
mstIter(st, e, vs) ==
    LET a == getIndex(vs, e.src)
        b == getIndex(vs, e.dst)
    IN  IF a >= 0 /\ b >= 0
        THEN LET u == union_set(st.parent, st.rnk, a, b)
             IN  IF u.ok
                 THEN [parent |-> u.parent, rnk |-> u.rnk,
                       tree |-> Append(st.tree, e), cost |-> st.cost + e.weight]
                 ELSE [st EXCEPT !.parent = u.parent, !.rnk = u.rnk]
        ELSE st

RECURSIVE mstLoop(_, _, _)
mstLoop(st, es, vs) ==
    IF es = << >> THEN st ELSE mstLoop(mstIter(st, Head(es), vs), Tail(es), vs)

\* mst(cost): sort, make_set, the loop
mst(es, par, rk, nv, vs) ==
    LET sorted == sort(es)
        ms     == make_set(par, rk, nv, vs)
        fin    == mstLoop([parent |-> ms.parent, rnk |-> ms.rnk,
                           tree |-> << >>, cost |-> 0], sorted, vs)
    IN  [edges |-> sorted, parent |-> fin.parent, rnk |-> fin.rnk,
         tree |-> fin.tree, cost |-> fin.cost]

\* ----------------------------------------------------------- trace loop
\* traceIter adding the weight of a rejected edge to the total as well
traceIter_countsRejected(st, e, vs) ==
    LET a == getIndex(vs, e.src)
        b == getIndex(vs, e.dst)
        valid == a >= 0 /\ b >= 0
        u == IF valid THEN union_set(st.parent, st.rnk, a, b)
             ELSE [ok |-> FALSE, parent |-> st.parent, rnk |-> st.rnk]
        accepted == u.ok
        mstIds == IF accepted THEN Append(st.mstEdgeIds, e.id) ELSE st.mstEdgeIds
        rejIds == IF accepted THEN st.rejectedEdgeIds ELSE Append(st.rejectedEdgeIds, e.id)
        total  == st.total + e.weight
        step   == [consideredEdgeId |-> e.id,
                   action |-> IF accepted THEN "accept" ELSE "reject",
                   reason |-> IF accepted THEN "ok" ELSE "cycle",
                   totalWeight |-> total,
                   mstEdgeIds |-> mstIds,
                   rejectedEdgeIds |-> rejIds]
    IN  [parent |-> u.parent, rnk |-> u.rnk, mstEdgeIds |-> mstIds,
         rejectedEdgeIds |-> rejIds, total |-> total,
         steps |-> Append(st.steps, step)]

\* traceIter recording a rejected edge in no list
traceIter_forgetsRejected(st, e, vs) ==
    LET a == getIndex(vs, e.src)
        b == getIndex(vs, e.dst)
        valid == a >= 0 /\ b >= 0
        u == IF valid THEN union_set(st.parent, st.rnk, a, b)
             ELSE [ok |-> FALSE, parent |-> st.parent, rnk |-> st.rnk]
        accepted == u.ok
        mstIds == IF accepted THEN Append(st.mstEdgeIds, e.id) ELSE st.mstEdgeIds
        rejIds == st.rejectedEdgeIds
        total  == IF accepted THEN st.total + e.weight ELSE st.total
        step   == [consideredEdgeId |-> e.id,
                   action |-> IF accepted THEN "accept" ELSE "reject",
                   reason |-> IF accepted THEN "ok" ELSE "cycle",
                   totalWeight |-> total,
                   mstEdgeIds |-> mstIds,
                   rejectedEdgeIds |-> rejIds]
    IN  [parent |-> u.parent, rnk |-> u.rnk, mstEdgeIds |-> mstIds,
         rejectedEdgeIds |-> rejIds, total |-> total,
         steps |-> Append(st.steps, step)]

\* traceIter writing only the considered edge into the lists of a step
traceIter_currentEdgeOnly(st, e, vs) ==
    LET a == getIndex(vs, e.src)
        b == getIndex(vs, e.dst)
        valid == a >= 0 /\ b >= 0
        u == IF valid THEN union_set(st.parent, st.rnk, a, b)
             ELSE [ok |-> FALSE, parent |-> st.parent, rnk |-> st.rnk]
        accepted == u.ok
        mstIds == IF accepted THEN Append(st.mstEdgeIds, e.id) ELSE st.mstEdgeIds
        rejIds == IF accepted THEN st.rejectedEdgeIds ELSE Append(st.rejectedEdgeIds, e.id)
        total  == IF accepted THEN st.total + e.weight ELSE st.total
        step   == [consideredEdgeId |-> e.id,
                   action |-> IF accepted THEN "accept" ELSE "reject",
                   reason |-> IF accepted THEN "ok" ELSE "cycle",
                   totalWeight |-> total,
                   mstEdgeIds |-> IF accepted THEN <<e.id>> ELSE << >>,
                   rejectedEdgeIds |-> IF accepted THEN << >> ELSE <<e.id>>]
    IN  [parent |-> u.parent, rnk |-> u.rnk, mstEdgeIds |-> mstIds,
         rejectedEdgeIds |-> rejIds, total |-> total,
         steps |-> Append(st.steps, step)]

\* one iteration of the loop of mst_steps_json() on edge e
traceIter(st, e, vs) ==
    LET a == getIndex(vs, e.src)
        b == getIndex(vs, e.dst)
        valid == a >= 0 /\ b >= 0
        u == IF valid THEN union_set(st.parent, st.rnk, a, b)
             ELSE [ok |-> FALSE, parent |-> st.parent, rnk |-> st.rnk]
        accepted == u.ok
        mstIds == IF accepted THEN Append(st.mstEdgeIds, e.id) ELSE st.mstEdgeIds
        rejIds == IF accepted THEN st.rejectedEdgeIds ELSE Append(st.rejectedEdgeIds, e.id)
        total  == IF accepted THEN st.total + e.weight ELSE st.total
        step   == [consideredEdgeId |-> e.id,
                   action |-> IF accepted THEN "accept" ELSE "reject",
                   reason |-> IF accepted THEN "ok" ELSE "cycle",
                   totalWeight |-> total,
                   mstEdgeIds |-> mstIds,
                   rejectedEdgeIds |-> rejIds]
    IN  [parent |-> u.parent, rnk |-> u.rnk, mstEdgeIds |-> mstIds,
         rejectedEdgeIds |-> rejIds, total |-> total,
         steps |-> Append(st.steps, step)]

RECURSIVE traceLoop(_, _, _)
traceLoop(st, es, vs) ==
    IF es = << >> THEN st ELSE traceLoop(traceIter(st, Head(es), vs), Tail(es), vs)

mst_steps_json(es, par, rk, nv, vs) ==
    LET sorted == sort(es)
        ms     == make_set(par, rk, nv, vs)
        fin    == traceLoop([parent |-> ms.parent, rnk |-> ms.rnk,
                             mstEdgeIds |-> << >>, rejectedEdgeIds |-> << >>,
                             total |-> 0, steps |-> << >>], sorted, vs)
    IN  [edges |-> sorted, parent |-> fin.parent, rnk |-> fin.rnk,
         steps |-> fin.steps, mstWeight |-> fin.total]

\* ------------------------------------------------------------- the state
NoMst   == [called |-> FALSE, tree |-> << >>, cost |-> 0]
NoTrace == [called |-> FALSE, steps |-> << >>, mstWeight |-> 0]

Computed == mstRes.called \/ traceRes.called

\* Graph::Graph(v, e) with v = MaxV; numEdges is stored and never read
Init ==
    /\ numVertices = MaxV
    /\ vertices = << >>
    /\ edges = << >>
    /\ parent = << >>
    /\ rnk = << >>
    /\ vertexCalls = << >>
    /\ added = << >>
    /\ mstRes = NoMst
    /\ traceRes = NoTrace
    /\ naive = << >>

\* The tokens the next addVertex call may carry: one already registered (a
\* duplicate) or the next unused token of NameSeq.
NextNames ==
    DOMAIN vertices \cup
    (IF Cardinality(DOMAIN vertices) < Len(NameSeq)
     THEN {NameSeq[Cardinality(DOMAIN vertices) + 1]} ELSE {})

\* Graph::addVertex(vertexName, vertexIndex), called as parseGraphFromText
\* calls it: g.addVertex(name, i) for i = 0 .. V-1
AddVertex(name, idx) ==
    /\ ~Computed
    /\ idx = Len(vertexCalls)
    /\ idx < numVertices
    /\ vertices' = emplace(vertices, name, idx)
    /\ vertexCalls' = Append(vertexCalls, <<name, idx>>)
    /\ UNCHANGED <<numVertices, edges, parent, rnk, added, mstRes, traceRes, naive>>

\* parseGraphFromText has made its V addVertex calls
Registered == Len(vertexCalls) = numVertices

\* Graph::addEdge(edgeId, weight, src, dst), called after the addVertex calls;
\* ids are 1, 2, ... in call order
AddEdge(id, w, s, d) ==
    /\ Registered
    /\ ~Computed
    /\ Len(edges) < MaxEdges
    /\ edges' = Append(edges, Edge(id, w, s, d))
    /\ added' = Append(added, Edge(id, w, s, d))
    /\ UNCHANGED <<numVertices, vertices, parent, rnk, vertexCalls, mstRes, traceRes, naive>>

\* a call of Graph::mst(cost)
Mst ==
    LET r == mst(edges, parent, rnk, numVertices, vertices)
    IN  /\ Registered
        /\ edges' = r.edges
        /\ parent' = r.parent
        /\ rnk' = r.rnk
        /\ mstRes' = [called |-> TRUE, tree |-> r.tree, cost |-> r.cost]
        /\ UNCHANGED <<numVertices, vertices, vertexCalls, added, traceRes, naive>>

\* a call of Graph::mst_steps_json()
MstStepsJson ==
    LET r == mst_steps_json(edges, parent, rnk, numVertices, vertices)
    IN  /\ Registered
        /\ edges' = r.edges
        /\ parent' = r.parent
        /\ rnk' = r.rnk
        /\ traceRes' = [called |-> TRUE, steps |-> r.steps, mstWeight |-> r.mstWeight]
        /\ UNCHANGED <<numVertices, vertices, vertexCalls, added, mstRes, naive>>

Next ==
    \/ \E name \in NextNames, idx \in {Len(vertexCalls)} : AddVertex(name, idx)
    \/ \E id \in {Len(edges) + 1}, in \in EdgeInputs : AddEdge(id, in[3], in[1], in[2])
    \/ Mst
    \/ MstStepsJson

Spec == Init /\ [][Next]_vars

\* ------------------------------------------- the disjoint-set, call by call
\* The inside of one computation on a graph of MaxSets vertices: make_set()
\* has run and the loop calls union_set(a, b) with the indices of the
\* endpoints of whatever edge comes next; find_set(a) is the first statement
\* of union_set; a further make_set() starts the next computation.  The edge
\* list and the results play no part and stay empty.

\* joining the component of b to the component of a in a labeling
Relabel(lab, a, b) == [x \in DOMAIN lab |-> IF lab[x] = lab[b] THEN lab[a] ELSE lab[x]]

\* The addVertex calls that register exactly the indices of R: the call for
\* an index outside R repeats the first token.
CallsRegistering(R) ==
    [k \in 1 .. MaxSets |->
        IF (k - 1) \in R
        THEN <<NameSeq[Cardinality({j \in R : j <= k - 1})], k - 1>>
        ELSE <<NameSeq[1], k - 1>>]

RECURSIVE emplaceAll(_, _)
emplaceAll(vs, calls) ==
    IF calls = << >> THEN vs
    ELSE emplaceAll(emplace(vs, Head(calls)[1], Head(calls)[2]), Tail(calls))

\* the indices getIndex can return: those of the registered names
Indices == {vertices[n] : n \in DOMAIN vertices}

InitSets ==
    /\ numVertices = MaxSets
    /\ \E R \in SUBSET (0 .. (MaxSets - 1)) :
          /\ 0 \in R
          /\ vertexCalls = CallsRegistering(R)
          /\ vertices = emplaceAll(<< >>, CallsRegistering(R))
    /\ edges = << >>
    /\ added = << >>
    /\ mstRes = NoMst
    /\ traceRes = NoTrace
    /\ parent = make_set(<< >>, << >>, numVertices, vertices).parent
    /\ rnk = make_set(<< >>, << >>, numVertices, vertices).rnk
    /\ naive = [x \in 0 .. (numVertices - 1) |-> x]

\* Graph::make_set()
MakeSet ==
    /\ parent' = make_set(parent, rnk, numVertices, vertices).parent
    /\ rnk' = make_set(parent, rnk, numVertices, vertices).rnk
    /\ naive' = [x \in 0 .. (numVertices - 1) |-> x]
    /\ UNCHANGED <<numVertices, vertices, edges, vertexCalls, added, mstRes, traceRes>>

\* Graph::find_set(a)
FindSet(a) ==
    /\ parent' = find_set(parent, a).parent
    /\ UNCHANGED <<numVertices, vertices, edges, rnk, vertexCalls, added, mstRes,
                   traceRes, naive>>

\* Graph::union_set(a, b)
UnionSet(a, b) ==
    /\ parent' = union_set(parent, rnk, a, b).parent
    /\ rnk' = union_set(parent, rnk, a, b).rnk
    /\ naive' = Relabel(naive, a, b)
    /\ UNCHANGED <<numVertices, vertices, edges, vertexCalls, added, mstRes, traceRes>>

NextSets ==
    \/ MakeSet
    \/ \E a \in Indices : FindSet(a)
    \/ \E a \in Indices, b \in Indices : UnionSet(a, b)

SpecSets == InitSets /\ [][NextSets]_vars

\* ================================================================ oracles
\* Definitions the properties are stated with; none of them uses the
\* disjoint-set or the merge sort.

Range(seq) == {seq[k] : k \in 1 .. Len(seq)}

\* the number of occurrences of x in seq
Count(x, seq) == Cardinality({k \in 1 .. Len(seq) : seq[k] = x})

\* seq1 is a permutation of seq2
IsPermutation(seq1, seq2) ==
    /\ Len(seq1) = Len(seq2)
    /\ \A x \in Range(seq1) \cup Range(seq2) : Count(x, seq1) = Count(x, seq2)

\* weights in non-decreasing order
IsSorted(seq) == \A p, q \in 1 .. Len(seq) : p < q => seq[p].weight <= seq[q].weight

\* the position of the edge with this id in the order of the addEdge calls
AddedPos(id) == CHOOSE k \in 1 .. Len(added) : added[k].id = id

AddedEdge(id) == added[AddedPos(id)]

\* both endpoint names of e are keys of the vertex map
Resolvable(e) == e.src \in DOMAIN vertices /\ e.dst \in DOMAIN vertices

\* the vertex indices of a resolvable edge
Ends(e) == <<vertices[e.src], vertices[e.dst]>>

RECURSIVE SumWeights(_)
SumWeights(seq) == IF seq = << >> THEN 0 ELSE Head(seq).weight + SumWeights(Tail(seq))

\* Naive connectivity: every vertex index carries the label of its component;
\* joining a and b relabels the whole component of b.
Singletons == [x \in 0 .. (numVertices - 1) |-> x]

RECURSIVE Components(_, _)
Components(lab, es) ==
    IF es = << >> THEN lab
    ELSE Components(Relabel(lab, Ends(Head(es))[1], Ends(Head(es))[2]), Tail(es))

\* no edge of es joins two vertices the edges before it already connect
RECURSIVE IsForestFrom(_, _)
IsForestFrom(lab, es) ==
    \/ es = << >>
    \/ /\ lab[Ends(Head(es))[1]] # lab[Ends(Head(es))[2]]
       /\ IsForestFrom(Relabel(lab, Ends(Head(es))[1], Ends(Head(es))[2]), Tail(es))

IsForest(es) == IsForestFrom(Singletons, es)

\* the two labelings connect the same pairs of vertices
SamePartition(l1, l2) ==
    \A x, y \in DOMAIN l1 : (l1[x] = l1[y]) <=> (l2[x] = l2[y])

\* the input edges with both endpoints registered
ResolvableEdges == SelectSeq(edges, Resolvable)

\* the root of x by following parent links, compressing nothing
RECURSIVE RootOf(_, _)
RootOf(par, x) == IF par[x] = x THEN x ELSE RootOf(par, par[x])

\* ================================================================= claims

\* C1: Determinism under repetition.  With the vertices and edges fixed, every
\* further call of mst() returns the accepted edges and the cost the call
\* before it returned, and every further call of mst_steps_json() returns
\* the trace the call before it returned.
C1_RepeatedCallsAgree ==
    [][ /\ mstRes.called => mstRes' = mstRes
        /\ traceRes.called => traceRes' = traceRes ]_vars

\* C2: Stable sort.  Once sort() has run, two edges of equal weight stand in
\* the stored edge list in the order in which they were added.
C2_SortIsStable ==
    Computed =>
        \A p, q \in 1 .. Len(edges) :
            (p < q /\ edges[p].weight = edges[q].weight)
                => AddedPos(edges[p].id) < AddedPos(edges[q].id)

\* C3: Trace skip policy.  No step of the trace of mst_steps_json() considers
\* an edge whose src or dst is not a registered vertex name, and the id of
\* such an edge is in no step's mstEdgeIds or rejectedEdgeIds.
C3_TraceSkipsUnresolvable ==
    traceRes.called =>
        \A k \in 1 .. Len(traceRes.steps) :
            LET step == traceRes.steps[k]
            IN  /\ Resolvable(AddedEdge(step.consideredEdgeId))
                /\ \A id \in Range(step.mstEdgeIds) \cup Range(step.rejectedEdgeIds) :
                       Resolvable(AddedEdge(id))

\* C4: Forest invariant.  The edges mst() returns have registered endpoints
\* and contain no cycle: none is a self-loop and none joins two vertices the
\* accepted edges before it connect.  Hence their number is at most
\* numVertices minus the number of connected components, under the input
\* edges, among the vertices the edges reference.
ReferencedNames == {e.src : e \in Range(added)} \cup {e.dst : e \in Range(added)}

ReferencedVertices == {vertices[n] : n \in (ReferencedNames \cap DOMAIN vertices)}

ReferencedComponents ==
    LET lab == Components(Singletons, ResolvableEdges)
    IN  Cardinality({lab[x] : x \in ReferencedVertices})

C4_ForestInvariant ==
    mstRes.called =>
        /\ \A k \in 1 .. Len(mstRes.tree) : Resolvable(mstRes.tree[k])
        /\ IsForest(mstRes.tree)
        /\ Len(mstRes.tree) <= numVertices - ReferencedComponents

\* C4's case: mst() accepted two edges and turned down an edge that would
\* have closed a cycle, and a self-loop was among the input.
C4_Witness ==
    /\ mstRes.called
    /\ Len(mstRes.tree) = 2
    /\ Len(ResolvableEdges) = 3
    /\ \E e \in Range(added) : e.src = e.dst /\ Resolvable(e)

\* C5: Weight consistency.  Once mst() and mst_steps_json() have both run on
\* the same vertices and edges, in either order, the cost of mst() equals
\* the mstWeight of the trace, also with edges that name unregistered
\* vertices among the input.
C5_WeightConsistency ==
    (mstRes.called /\ traceRes.called) => mstRes.cost = traceRes.mstWeight

\* the ids of a sequence of edges
Ids(es) == [k \in 1 .. Len(es) |-> es[k].id]

\* C5's case: both methods ran, an input edge names an unregistered vertex,
\* the cost is not zero, and the two runs accepted different edges.
C5_Witness ==
    /\ mstRes.called
    /\ traceRes.called
    /\ mstRes.cost # 0
    /\ \E e \in Range(added) : ~Resolvable(e)
    /\ Len(traceRes.steps) > 0
    /\ traceRes.steps[Len(traceRes.steps)].mstEdgeIds # Ids(mstRes.tree)

\* C6: Trace accumulation law.  The k-th step of the trace lists k ids in
\* mstEdgeIds and rejectedEdgeIds together, and k is the number of edges
\* with registered endpoints considered up to that step: edges with an
\* unknown endpoint are not counted.
C6_TraceAccumulation ==
    traceRes.called =>
        \A k \in 1 .. Len(traceRes.steps) :
            LET step == traceRes.steps[k]
                processed == {j \in 1 .. k :
                                 Resolvable(AddedEdge(traceRes.steps[j].consideredEdgeId))}
            IN  /\ Len(step.mstEdgeIds) + Len(step.rejectedEdgeIds) = k
                /\ k = Cardinality(processed)

\* C7: Classic skip policy.  A call of mst() returns what its loop returns on
\* the sorted edges with the edges naming an unregistered vertex taken out:
\* the same accepted edges, the same cost, and the same parent and rank
\* arrays at the end; no returned edge names an unregistered vertex.
C7_MstSkipsUnresolvable ==
    [][ Mst =>
          LET ms   == make_set(parent, rnk, numVertices, vertices)
              kept == SelectSeq(edges', Resolvable)
              run  == mstLoop([parent |-> ms.parent, rnk |-> ms.rnk,
                               tree |-> << >>, cost |-> 0], kept, vertices)
          IN  /\ \A k \in 1 .. Len(mstRes'.tree) : Resolvable(mstRes'.tree[k])
              /\ mstRes'.tree = run.tree
              /\ mstRes'.cost = run.cost
              /\ mstRes'.cost = SumWeights(mstRes'.tree)
              /\ parent' = run.parent
              /\ rnk' = run.rnk ]_vars

\* C7's case: mst() ran over a sorted list in which an edge naming an
\* unregistered vertex stands before an edge that was accepted.
C7_Witness ==
    /\ mstRes.called
    /\ \E p, q \in 1 .. Len(edges) :
           /\ p < q
           /\ ~Resolvable(edges[p])
           /\ edges[q] \in Range(mstRes.tree)

\* C8: Minimality.  When every edge references registered vertices, the cost
\* of mst() is the least total weight of a spanning forest: a set of input
\* edges without a cycle that connects the vertex pairs the input connects.
EdgesIn(S) == LET Chosen(e) == e \in S IN SelectSeq(added, Chosen)

SpanningForests ==
    LET whole == Components(Singletons, added)
    IN  {S \in SUBSET Range(added) :
            LET es == EdgesIn(S)
            IN  IsForest(es) /\ SamePartition(Components(Singletons, es), whole)}

ForestWeights == {SumWeights(EdgesIn(S)) : S \in SpanningForests}

\* w is the least element of the set ws
IsLeast(w, ws) == w \in ws /\ \A v \in ws : w <= v

AllResolvable == \A e \in Range(added) : Resolvable(e)

C8_Minimality ==
    (mstRes.called /\ AllResolvable) =>
        LET weights == ForestWeights IN IsLeast(mstRes.cost, weights)

\* C8's case: mst() ran on a graph with a cycle whose spanning forests differ
\* in weight, with a negative weight and two equal weights among the edges.
C8_Witness ==
    /\ mstRes.called
    /\ AllResolvable
    /\ Cardinality(ForestWeights) >= 2
    /\ \E e \in Range(added) : e.weight < 0
    /\ \E p, q \in 1 .. Len(added) : p # q /\ added[p].weight = added[q].weight

\* C9: Duplicate vertex registration.  The names addVertex was called with,
\* the index of the first call for a name and the index of the latest.
CalledNames == {vertexCalls[k][1] : k \in 1 .. Len(vertexCalls)}

CallsFor(name) == {k \in 1 .. Len(vertexCalls) : vertexCalls[k][1] = name}

FirstIndex(name) ==
    vertexCalls[CHOOSE k \in CallsFor(name) : \A j \in CallsFor(name) : k <= j][2]

LastIndex(name) ==
    vertexCalls[CHOOSE k \in CallsFor(name) : \A j \in CallsFor(name) : k >= j][2]

\* C9 as claimed: last write wins.  getIndex(name) is the index of the latest
\* addVertex call for the name.
C9_LastWriteWins ==
    \A n \in CalledNames : getIndex(vertices, n) = LastIndex(n)

\* C9 as amended: first write wins.  getIndex(name) is the index of the first
\* addVertex call for the name, and a computation joins the first indices of
\* the two endpoint names of every edge between registered names.
C9_FirstWriteWins ==
    /\ \A n \in CalledNames : getIndex(vertices, n) = FirstIndex(n)
    /\ Computed =>
          \A e \in Range(added) :
              (e.src \in CalledNames /\ e.dst \in CalledNames)
                  => RootOf(parent, FirstIndex(e.src)) = RootOf(parent, FirstIndex(e.dst))

\* C9's case: a name was registered twice with different indices and a
\* computation ran over an edge from that name to another registered name.
C9_Witness ==
    /\ Computed
    /\ \E e \in Range(added) :
           /\ Resolvable(e)
           /\ e.src # e.dst
           /\ FirstIndex(e.src) # LastIndex(e.src)

\* C10: Sort result.  Once sort() has run, the stored edge list is a
\* permutation of the edges as added (of any length, 0 and 1 included) and
\* its weights are in non-decreasing order.
C10_SortResult ==
    Computed => (IsPermutation(edges, added) /\ IsSorted(edges))

\* C10's case: sort() ran on three edges of two weights and moved one.
C10_Witness ==
    /\ Computed
    /\ Len(edges) = 3
    /\ edges # added
    /\ \E p, q \in 1 .. Len(edges) : edges[p].weight # edges[q].weight

\* ------------------------------------------------ claims on the disjoint-set

\* x and y have the same representative in the parent array par
SameSet(par, x, y) == RootOf(par, x) = RootOf(par, y)

C12_MakeSetResetsEveryIndex ==
    Registered =>
        LET ms == make_set(parent, rnk, numVertices, vertices)
        IN  \A i \in 0 .. (numVertices - 1) : ms.parent[i] = i /\ ms.rnk[i] = 0

\* ------------------------------------------------------ claims on the trace

IsPrefix(s1, s2) == Len(s1) <= Len(s2) /\ SubSeq(s2, 1, Len(s1)) = s1

\* C13: Cumulative snapshots.  From each step of the trace to the next, both
\* id lists are extended or kept: the considered edge of the later step is
\* appended to mstEdgeIds when its action is accept, to rejectedEdgeIds when
\* it is reject, and the other list is the same.
C13_CumulativeSnapshots ==
    traceRes.called =>
        \A k \in 1 .. (Len(traceRes.steps) - 1) :
            LET s1 == traceRes.steps[k]
                s2 == traceRes.steps[k + 1]
            IN  /\ IsPrefix(s1.mstEdgeIds, s2.mstEdgeIds)
                /\ IsPrefix(s1.rejectedEdgeIds, s2.rejectedEdgeIds)
                /\ s2.action \in {"accept", "reject"}
                /\ s2.action = "accept" =>
                      /\ s2.mstEdgeIds = Append(s1.mstEdgeIds, s2.consideredEdgeId)
                      /\ s2.rejectedEdgeIds = s1.rejectedEdgeIds
                /\ s2.action = "reject" =>
                      /\ s2.rejectedEdgeIds = Append(s1.rejectedEdgeIds, s2.consideredEdgeId)
                      /\ s2.mstEdgeIds = s1.mstEdgeIds

\* C13's case: a trace of three steps whose second and third step differ in
\* action, after a first step that accepted.
C13_Witness ==
    /\ traceRes.called
    /\ Len(traceRes.steps) = 3
    /\ traceRes.steps[1].action = "accept"
    /\ traceRes.steps[2].action # traceRes.steps[3].action

\* the sum of the weights of the edges with these ids
RECURSIVE SumOfIds(_)
SumOfIds(ids) ==
    IF ids = << >> THEN 0 ELSE AddedEdge(Head(ids)).weight + SumOfIds(Tail(ids))

\* C14: Running total.  The totalWeight of every step is the sum of the
\* weights of the edges in its mstEdgeIds: a reject step keeps the total of
\* the step before, an accept step adds the weight of its edge.  mstWeight is
\* the totalWeight of the last step, and 0 for a trace without steps.
C14_RunningTotal ==
    traceRes.called =>
        /\ \A k \in 1 .. Len(traceRes.steps) :
              LET step == traceRes.steps[k]
                  before == IF k = 1 THEN 0 ELSE traceRes.steps[k - 1].totalWeight
              IN  /\ step.totalWeight = SumOfIds(step.mstEdgeIds)
                  /\ step.action = "reject" => step.totalWeight = before
                  /\ step.action = "accept" =>
                        step.totalWeight = before + AddedEdge(step.consideredEdgeId).weight
        /\ traceRes.mstWeight =
              IF traceRes.steps = << >> THEN 0
              ELSE traceRes.steps[Len(traceRes.steps)].totalWeight

\* C14's case: a trace that accepted two edges around a rejected one and
\* ends with a total that is not zero.
C14_Witness ==
    /\ traceRes.called
    /\ Len(traceRes.steps) = 3
    /\ traceRes.steps[1].action = "accept"
    /\ traceRes.steps[2].action = "reject"
    /\ traceRes.steps[3].action = "accept"
    /\ traceRes.mstWeight # 0

\* ------------------------------------- more claims on the disjoint-set

\* the index reached from x after n parent links
RECURSIVE Ancestor(_, _, _)
Ancestor(par, x, n) == IF n = 0 THEN x ELSE Ancestor(par, par[x], n - 1)

\* C15: Parent-pointer invariant.  From every index the computation uses,
\* the parent links lead, in fewer steps than there are indices, to an index
\* that is its own parent: the links form no cycle but the self-loops of the
\* roots.
C15_ParentLinksReachARoot ==
    \A x \in Indices :
        \E n \in 0 .. (numVertices - 1) :
            LET r == Ancestor(parent, x, n)
            IN  r \in Indices /\ parent[r] = r

\* C15's case: an index two parent links away from its root.
C15_Witness ==
    \E x \in Indices :
        /\ parent[x] # x
        /\ parent[parent[x]] # parent[x]
        /\ parent[parent[parent[x]]] = parent[parent[x]]

\* the indices that are their own parent
Roots(par) == {x \in Indices : par[x] = x}

\* C16: Union by rank.  When union_set(a, b) merges two distinct roots, the
\* root of strictly lower rank becomes a child of the other and no rank
\* changes; on equal ranks one root becomes the child of the other and the
\* surviving root's rank grows by exactly one; every other root keeps its
\* parent and its rank.
C16_UnionByRank ==
    [][\A a0, b0 \in Indices :
         LET ra == RootOf(parent, a0)
             rb == RootOf(parent, b0)
         IN  (UnionSet(a0, b0) /\ ra # rb) =>
               /\ rnk[ra] < rnk[rb] => parent'[ra] = rb /\ parent'[rb] = rb /\ rnk' = rnk
               /\ rnk[rb] < rnk[ra] => parent'[rb] = ra /\ parent'[ra] = ra /\ rnk' = rnk
               /\ rnk[ra] = rnk[rb] =>
                     \E child \in {ra, rb} :
                         LET survivor == IF child = ra THEN rb ELSE ra
                         IN  /\ parent'[child] = survivor
                             /\ parent'[survivor] = survivor
                             /\ rnk'[survivor] = rnk[survivor] + 1
                             /\ rnk'[child] = rnk[child]
               /\ \A r \in Roots(parent) \ {ra, rb} :
                     parent'[r] = r /\ rnk'[r] = rnk[r]]_vars

\* C16's cases: a root of rank 1 with three members came from a union of
\* unequal ranks; a root of rank 2 came from a union of equal positive ranks.
C16_Witness ==
    \E r \in Roots(parent) :
        /\ rnk[r] = 1
        /\ Cardinality({x \in Indices : RootOf(parent, x) = r}) = 3

\* the number of parent links from x to its root
RECURSIVE Depth(_, _)
Depth(par, x) == IF par[x] = x THEN 0 ELSE 1 + Depth(par, par[x])

\* the longest parent-link path from a member to the root r
Height(par, r) ==
    LET ds == {Depth(par, x) : x \in {y \in Indices : RootOf(par, y) = r}}
    IN  CHOOSE h \in ds : \A k \in ds : k <= h

RECURSIVE Path(_, _)
Path(par, x) == IF par[x] = x THEN {x} ELSE {x} \cup Path(par, par[x])

\* C18: Path compression frame.  find_set(x) returns the representative of
\* x's set; afterwards every node on the path from x to the representative
\* has the representative as its parent; no rank changes, no parent of a node
\* off the path changes, and the same vertices share a set as before.
C18_PathCompressionFrame ==
    /\ [](\A x \in Indices :
            LET r == RootOf(parent, x)
                f == find_set(parent, x)
            IN  /\ f.root = r
                /\ \A y \in Path(parent, x) : f.parent[y] = r
                /\ \A y \in (0 .. (numVertices - 1)) \ Path(parent, x) :
                      f.parent[y] = parent[y]
                /\ \A y, z \in Indices :
                      (RootOf(f.parent, y) = RootOf(f.parent, z))
                          <=> (RootOf(parent, y) = RootOf(parent, z)))
    /\ [][\A x \in Indices : FindSet(x) => rnk' = rnk]_vars

\* C18's case: a leaf of positive rank, an inner node whose child find_set
\* has moved to the root.
C18_Witness ==
    \E x \in Indices :
        /\ parent[x] # x
        /\ rnk[x] > 0
        /\ \A y \in Indices : parent[y] # x

\* ----------------------------------------------- more claims on the runs

\* C19: Classic and traced runs agree on the accepted edges.  Once mst() and
\* mst_steps_json() have both run on the same vertices and edges, in either
\* order on the same Graph, the mstEdgeIds of the last trace step are the ids
\* of the edges mst() returned, element by element and in order.
C19_TraceAgreesWithMst ==
    (mstRes.called /\ traceRes.called /\ Len(traceRes.steps) > 0) =>
        traceRes.steps[Len(traceRes.steps)].mstEdgeIds = Ids(mstRes.tree)

\* every registered vertex is reachable from every other by the edges es
Connects(es) ==
    LET lab == Components(Singletons, es)
    IN  \A x, y \in Indices : lab[x] = lab[y]

\* C20: Spanning.  When mst() has finished, two registered vertices are
\* connected by accepted edges exactly when they are connected by input edges
\* with registered endpoints; every such input edge that was not accepted
\* joins two vertices the accepted edges connect; and on a connected graph
\* with V registered vertices exactly V - 1 edges are accepted.
C20_Spanning ==
    mstRes.called =>
        LET byTree  == Components(Singletons, mstRes.tree)
            byInput == Components(Singletons, ResolvableEdges)
        IN  /\ \A x, y \in Indices : (byTree[x] = byTree[y]) <=> (byInput[x] = byInput[y])
            /\ \A e \in Range(ResolvableEdges) :
                  e \notin Range(mstRes.tree) => byTree[Ends(e)[1]] = byTree[Ends(e)[2]]
            /\ Connects(ResolvableEdges) =>
                  Len(mstRes.tree) = Cardinality(DOMAIN vertices) - 1

\* C20's case: mst() ran on a cycle through three registered vertices and
\* left one of its edges out.
C20_Witness ==
    /\ mstRes.called
    /\ Cardinality(DOMAIN vertices) = 3
    /\ Connects(ResolvableEdges)
    /\ Len(ResolvableEdges) = 3
    /\ Len(mstRes.tree) = 2

====
